---- MODULE Spec2Model ----
(***************************************************************************)
(* Model of src/wasm/accel.c of zero-compress: the four byte-buffer        *)
(* primitives fast_crc32, fast_memcmp, find_pattern and calculate_entropy. *)
(*                                                                         *)
(* The functions are pure, so the state is the call in progress: which     *)
(* function was called (fn), its arguments together with the build it runs *)
(* under (args), where the call stands (pc), its local variables (locals)  *)
(* and what it returned (ret).  The long loops of fast_crc32 and           *)
(* calculate_entropy are taken one iteration per step; fast_memcmp and     *)
(* find_pattern are operators.  A buffer is a sequence of bytes; the C     *)
(* index i is the sequence index i + 1.                                    *)
(*                                                                         *)
(* fast_crc32 has two builds, with and without __SSE4_2__.  Both are run   *)
(* on the same input in the same steps: locals.crc.sse42 is the register   *)
(* of the build with the hardware instruction, locals.crc.table that of    *)
(* the table-driven build.  ref is the register of the standard reflected  *)
(* CRC-32, computed bit by bit over the bytes consumed so far.             *)
(*                                                                         *)
(* TLC's integers are 32-bit signed, so the wider C values are kept as     *)
(* numerals: a uint64_t is a sequence of 8 base-256 digits, most           *)
(* significant first; a uint32_t is the pair of its two 16-bit halves.     *)
(***************************************************************************)
EXTENDS Integers, Sequences, FiniteSets, TLC

VARIABLES fn, args, pc, locals, ret, ref

vars == <<fn, args, pc, locals, ret, ref>>

(***************************************************************************)
(* Bounds of the model.                                                    *)
(***************************************************************************)
MaxCmpLen == 9
MaxMarks == 2
MaxHay == 11
MaxHayMarks == 2
MaxNeedle == 10
MaxNeedleMarks == 1
MaxCrcLen == 3
MaxEntropyLen == 5

(* The buffers handed to fast_crc32: every buffer of at most MaxCrcLen     *)
(* bytes over 0x00, '1' and 0xFF, the check string "123456789", and        *)
(* buffers of 63, 64 and 65 bytes.                                         *)
Ramp(n) == [i \in 1..n |-> (i * 37) % 256]

CheckString == <<49, 50, 51, 52, 53, 54, 55, 56, 57>>

CrcInputs ==
  UNION {[1..n -> {0, 49, 255}] : n \in 0..MaxCrcLen}
    \cup {CheckString, Ramp(63), Ramp(64), Ramp(65)}

(* The buffers handed to calculate_entropy: every buffer of at most        *)
(* MaxEntropyLen bytes over 'a', 'b' and 'c', the 256-byte buffer holding  *)
(* every byte value once, and that buffer with its last byte set to 0.     *)
AllValues == [i \in 1..256 |-> i - 1]

AllButOne == [i \in 1..256 |-> IF i = 256 THEN 0 ELSE i - 1]

EntropyInputs ==
  UNION {[1..n -> {97, 98, 99}] : n \in 0..MaxEntropyLen}
    \cup {AllValues, AllButOne}

(* Buffers of length len whose bytes are 0x10 except for at most marks     *)
(* bytes that are 0xF0.                                                    *)
Sparse(len, marks) ==
  {s \in [1..len -> {16, 240}] : Cardinality({i \in 1..len : s[i] = 240}) <= marks}

Endians == {"little", "big"}

(***************************************************************************)
(* uint64_t, as 8 base-256 digits, most significant first.                 *)
(***************************************************************************)
U64Zero == [k \in 1..8 |-> 0]

RECURSIVE U64LessFrom(_, _, _)
U64LessFrom(va, vb, k) ==
  IF k > 8 THEN FALSE
  ELSE IF va[k] # vb[k] THEN va[k] < vb[k]
  ELSE U64LessFrom(va, vb, k + 1)

(* va < vb on uint64_t *)
U64Less(va, vb) == U64LessFrom(va, vb, 1)

(* The uint64_t load at p + i: the 8 bytes p[i..i+7] as one native word,   *)
(* which is what the wasm and x86 builds make of the cast at any           *)
(* alignment.  The byte order is the target's: little-endian gives p[i+j]  *)
(* the weight 256^j, big-endian the weight 256^(7-j).                      *)
LoadU64(p, i, endian) ==
  IF endian = "little"
  THEN [k \in 1..8 |-> p[(i + 8 - k) + 1]]
  ELSE [k \in 1..8 |-> p[(i + k - 1) + 1]]

(* pattern |= (uint64_t)byte << (j * 8), on a pattern whose byte j is 0 *)
OrShifted(pattern, byte, j) == [pattern EXCEPT ![8 - j] = byte]

(***************************************************************************)
(* fast_memcmp                                                             *)
(***************************************************************************)
(* va < vb ? -1 : 1 *)
WordOrderAlwaysGreater(va, vb) == 1
WordOrder(va, vb) == IF U64Less(va, vb) THEN -1 ELSE 1

(* a[i] < b[i] ? -1 : 1 *)
ByteOrder(x, y) == IF x < y THEN -1 ELSE 1

(* for (; i < len; i++) if (a[i] != b[i]) return ...; return 0; *)
ByteLoopSkipped(a, b, i, len) == 0
RECURSIVE ByteLoop(_, _, _, _)
ByteLoop(a, b, i, len) ==
  IF i < len
  THEN IF a[i + 1] # b[i + 1]
       THEN ByteOrder(a[i + 1], b[i + 1])
       ELSE ByteLoop(a, b, i + 1, len)
  ELSE 0

(* for (; i + 8 <= len; i += 8) { va, vb; if (va != vb) return ...; } *)
RECURSIVE WordLoop(_, _, _, _, _)
WordLoop(a, b, i, len, endian) ==
  IF i + 8 <= len
  THEN LET va == LoadU64(a, i, endian)
           vb == LoadU64(b, i, endian)
       IN  IF va # vb
           THEN WordOrder(va, vb)
           ELSE WordLoop(a, b, i + 8, len, endian)
  ELSE ByteLoop(a, b, i, len)

fast_memcmp(a, b, len, endian) == WordLoop(a, b, 0, len, endian)

(***************************************************************************)
(* find_pattern                                                            *)
(***************************************************************************)
(* (size_t)-1; every offset the function returns is below it *)
NotFound == -1

(* haystack + i *)
PtrAdd(p, i) == SubSeq(p, i + 1, Len(p))

(* if (needle_len == 0 || needle_len > haystack_len) return (size_t)-1; *)
EarlyReturnNoEmptyCheck(haystack_len, needle_len) == needle_len > haystack_len
EarlyReturn(haystack_len, needle_len) ==
  needle_len = 0 \/ needle_len > haystack_len

(* i <= haystack_len - needle_len, the subtraction does not wrap here *)
InRangeExclusive(i, haystack_len, needle_len) == i < haystack_len - needle_len
InRange(i, haystack_len, needle_len) == i <= haystack_len - needle_len

(* for (j = 0; j < n; j++) pattern |= (uint64_t)p[i + j] << (j * 8); *)
RECURSIVE PackLoop(_, _, _, _, _)
PackLoop(pattern, p, i, n, j) ==
  IF j < n
  THEN PackLoop(OrShifted(pattern, p[(i + j) + 1], j), p, i, n, j + 1)
  ELSE pattern

Pack(p, i, n) == PackLoop(U64Zero, p, i, n, 0)

(* the needle_len <= 8 loop over the offsets *)
RECURSIVE PackedSearch(_, _, _, _, _)
PackedSearch(haystack, haystack_len, needle_pattern, needle_len, i) ==
  IF InRange(i, haystack_len, needle_len)
  THEN IF Pack(haystack, i, needle_len) = needle_pattern
       THEN i
       ELSE PackedSearch(haystack, haystack_len, needle_pattern, needle_len, i + 1)
  ELSE NotFound

(* the needle_len > 8 loop over the offsets *)
RECURSIVE MemcmpSearch(_, _, _, _, _, _)
MemcmpSearch(haystack, haystack_len, needle, needle_len, i, endian) ==
  IF InRange(i, haystack_len, needle_len)
  THEN IF fast_memcmp(PtrAdd(haystack, i), needle, needle_len, endian) = 0
       THEN i
       ELSE MemcmpSearch(haystack, haystack_len, needle, needle_len, i + 1, endian)
  ELSE NotFound

(* The outcomes of find_pattern: result is the value returned, path the    *)
(* branch that produced it.  A loop entered with needle_len > haystack_len *)
(* would evaluate a wrapped haystack_len - needle_len and read past the    *)
(* haystack, which is undefined: any value may come back.                  *)
find_pattern(haystack, haystack_len, needle, needle_len, endian) ==
  IF EarlyReturn(haystack_len, needle_len)
  THEN {[result |-> NotFound, path |-> "early"]}
  ELSE IF needle_len > haystack_len
  THEN {[result |-> r, path |-> "wrapped"] : r \in {NotFound} \cup 0..haystack_len}
  ELSE IF needle_len <= 8
  THEN {[result |-> PackedSearch(haystack, haystack_len,
                                 Pack(needle, 0, needle_len), needle_len, 0),
         path |-> "packed"]}
  ELSE {[result |-> MemcmpSearch(haystack, haystack_len, needle, needle_len, 0, endian),
         path |-> "memcmp"]}

(***************************************************************************)
(* uint32_t, as the pair of its upper and lower 16 bits.                   *)
(***************************************************************************)
Bits32(hi, lo) == <<hi, lo>>

(* x ^ y on the low n bits of two naturals *)
RECURSIVE XorBits(_, _, _)
XorBits(x, y, n) ==
  IF n = 0 THEN 0
  ELSE ((x + y) % 2) + 2 * XorBits(x \div 2, y \div 2, n - 1)

(* x ^ y *)
Xor32(x, y) == <<XorBits(x[1], y[1], 16), XorBits(x[2], y[2], 16)>>

(* x >> n, for n in 0..16 *)
Shr32(x, n) ==
  <<x[1] \div 2^n, (x[2] \div 2^n) + (x[1] % 2^n) * 2^(16 - n)>>

(* x & 0xFF, as an array index *)
Low8(x) == x[2] % 256

(* x & 1 *)
Low1(x) == x[2] % 2

(* a byte promoted to 32 bits *)
FromByte(byte) == Bits32(0, byte)

(***************************************************************************)
(* fast_crc32                                                              *)
(***************************************************************************)
(* uint32_t crc = 0xFFFFFFFF *)
CrcInitZero == Bits32(0, 0)
CrcInit == Bits32(\hFFFF, \hFFFF)

(* return crc ^ 0xFFFFFFFF *)
CrcFinal(crc) == Xor32(crc, Bits32(\hFFFF, \hFFFF))

(* const uint32_t crc_table[256] = { 5 initialisers }: the elements after  *)
(* the fifth initialiser are zero-initialised.                             *)
crc_table ==
  [n \in 0..255 |->
     CASE n = 0 -> Bits32(\h0000, \h0000)
       [] n = 1 -> Bits32(\h7707, \h3096)
       [] n = 2 -> Bits32(\hEE0E, \h612C)
       [] n = 3 -> Bits32(\h9909, \h51BA)
       [] n = 4 -> Bits32(\h2D02, \hEF8D)
       [] OTHER -> Bits32(0, 0)]

(* crc = crc_table[(crc ^ data[i]) & 0xFF] ^ (crc >> 8) *)
TableStep(crc, byte) ==
  Xor32(crc_table[Low8(Xor32(crc, FromByte(byte)))], Shr32(crc, 8))

(* One bit of the x86 CRC32 instruction: division by the CRC-32C           *)
(* (Castagnoli) polynomial 0x11EDC6F41, bit-reflected 0x82F63B78.          *)
RECURSIVE Crc32cBits(_, _)
Crc32cBits(x, n) ==
  IF n = 0 THEN x
  ELSE Crc32cBits(IF Low1(x) = 1
                  THEN Xor32(Shr32(x, 1), Bits32(\h82F6, \h3B78))
                  ELSE Shr32(x, 1), n - 1)

(* crc = __builtin_ia32_crc32qi(crc, data[i]): the SSE4.2 CRC32 r32, r/m8  *)
(* instruction.                                                            *)
builtin_ia32_crc32qi(crc, byte) == Crc32cBits(Xor32(crc, FromByte(byte)), 8)

(* One bit of the standard reflected CRC-32: polynomial 0xEDB88320. *)
RECURSIVE Crc32Bits(_, _)
Crc32Bits(x, n) ==
  IF n = 0 THEN x
  ELSE Crc32Bits(IF Low1(x) = 1
                 THEN Xor32(Shr32(x, 1), Bits32(\hEDB8, \h8320))
                 ELSE Shr32(x, 1), n - 1)

(* the standard register update for one byte, bit by bit *)
StandardStep(crc, byte) == Crc32Bits(Xor32(crc, FromByte(byte)), 8)

(* the standard table entry n, generated from the polynomial *)
StandardEntry(n) == Crc32Bits(Bits32(0, n), 8)

(***************************************************************************)
(* double, for the values calculate_entropy computes, in exact real        *)
(* arithmetic (rounding is not modelled).  The record e stands for the     *)
(* real  (e.exp2 + log2(e.num / e.den)) / e.scale,  with num and den odd:  *)
(* log2 of a ratio of integers is its power of two plus log2 of the ratio  *)
(* of the odd parts.                                                       *)
(***************************************************************************)
(* the literal 0.0, in units of 1 / scale *)
Zero(scale) == [scale |-> scale, exp2 |-> 0, num |-> 1, den |-> 1]

(* the exponent of 2 in m > 0, and m without its factors 2 *)
RECURSIVE Val2(_)
Val2(m) == IF m % 2 = 0 THEN 1 + Val2(m \div 2) ELSE 0

RECURSIVE OddPart(_)
OddPart(m) == IF m % 2 = 0 THEN OddPart(m \div 2) ELSE m

RECURSIVE Pow(_, _)
Pow(b, e) == IF e = 0 THEN 1 ELSE b * Pow(b, e - 1)

(* (double)count / length: the exact ratio *)
Quotient(count, length) == [count |-> count, length |-> length]

(* entropy -= p * log2(p), for entropy in units of 1 / p.length:           *)
(* -p * log2(p) = (count / length) * log2(length / count), which is        *)
(* log2((length / count)^count) / length.                                  *)
SubLog2P(entropy, p) ==
  [entropy EXCEPT
     !.exp2 = @ + p.length * (Val2(p.length) - Val2(p.count)),
     !.num = @ * Pow(OddPart(p.length), p.length),
     !.den = @ * Pow(OddPart(p.count), p.length)]
SubPLog2P(entropy, p) ==
  [entropy EXCEPT
     !.exp2 = @ + p.count * (Val2(p.length) - Val2(p.count)),
     !.num = @ * Pow(OddPart(p.length), p.count),
     !.den = @ * Pow(OddPart(p.count), p.count)]

(***************************************************************************)
(* calculate_entropy                                                       *)
(***************************************************************************)
(* if (length == 0) return 0.0; *)
NoEmptyCheck(length) == FALSE
IsEmpty(length) == length = 0

(* the values i <= v < 256 with counts[v] > 0 *)
Present(counts, i) == {v \in i..255 : counts[v] > 0}

(***************************************************************************)
(* The calls.                                                              *)
(***************************************************************************)
Init ==
  /\ fn = "idle"
  /\ args = <<>>
  /\ pc = "idle"
  /\ locals = <<>>
  /\ ret = <<>>
  /\ ref = <<>>

(* uint32_t crc = 0xFFFFFFFF, in both builds *)
CallCrc32 ==
  /\ pc = "idle"
  /\ \E data \in CrcInputs :
       /\ fn' = "fast_crc32"
       /\ args' = [data |-> data, length |-> Len(data)]
  /\ pc' = "crc_loop"
  /\ locals' = [i |-> 0, crc |-> [sse42 |-> CrcInit, table |-> CrcInit]]
  /\ ret' = <<>>
  /\ ref' = Bits32(\hFFFF, \hFFFF)

(* one iteration of for (size_t i = 0; i < length; i++) *)
CrcStep ==
  /\ pc = "crc_loop"
  /\ locals.i < args.length
  /\ LET byte == args.data[locals.i + 1]
     IN  /\ locals' = [i |-> locals.i + 1,
                       crc |-> [sse42 |-> builtin_ia32_crc32qi(locals.crc.sse42, byte),
                                table |-> TableStep(locals.crc.table, byte)]]
         /\ ref' = StandardStep(ref, byte)
  /\ UNCHANGED <<fn, args, pc, ret>>

(* return crc ^ 0xFFFFFFFF *)
CrcReturn ==
  /\ pc = "crc_loop"
  /\ ~(locals.i < args.length)
  /\ ret' = [sse42 |-> CrcFinal(locals.crc.sse42), table |-> CrcFinal(locals.crc.table)]
  /\ pc' = "done"
  /\ UNCHANGED <<fn, args, locals, ref>>

CallMemcmp ==
  /\ pc = "idle"
  /\ \E len \in 0..MaxCmpLen, endian \in Endians :
       \E a \in Sparse(len, MaxMarks), b \in Sparse(len, MaxMarks) :
         /\ fn' = "fast_memcmp"
         /\ args' = [a |-> a, b |-> b, len |-> len, endian |-> endian]
         /\ ret' = fast_memcmp(a, b, len, endian)
  /\ pc' = "done"
  /\ UNCHANGED <<locals, ref>>

CallFindPattern ==
  /\ pc = "idle"
  /\ \E hl \in 0..MaxHay, nl \in 0..MaxNeedle, endian \in Endians :
       \E haystack \in Sparse(hl, MaxHayMarks), needle \in Sparse(nl, MaxNeedleMarks) :
         \E r \in find_pattern(haystack, hl, needle, nl, endian) :
           /\ fn' = "find_pattern"
           /\ args' = [haystack |-> haystack, haystack_len |-> hl,
                       needle |-> needle, needle_len |-> nl, endian |-> endian]
           /\ ret' = r
  /\ pc' = "done"
  /\ UNCHANGED <<locals, ref>>

(* if (length == 0) return 0.0; uint32_t counts[256] = {0}; ... *)
CallEntropy ==
  /\ pc = "idle"
  /\ \E data \in EntropyInputs :
       /\ fn' = "calculate_entropy"
       /\ args' = [data |-> data, length |-> Len(data)]
       /\ IF IsEmpty(Len(data))
          THEN /\ pc' = "done"
               /\ locals' = <<>>
               /\ ret' = Zero(1)
          ELSE /\ pc' = "count_loop"
               /\ locals' = [counts |-> [v \in 0..255 |-> 0], unique_count |-> 0, i |-> 0]
               /\ ret' = <<>>
  /\ UNCHANGED ref

(* one iteration of for (i = 0; i < length; i++)                           *)
(*   if (counts[data[i]]++ == 0) unique_count++;                           *)
CountStep ==
  /\ pc = "count_loop"
  /\ locals.i < args.length
  /\ LET byte == args.data[locals.i + 1]
     IN  locals' = [counts |-> [locals.counts EXCEPT ![byte] = @ + 1],
                    unique_count |-> IF locals.counts[byte] = 0
                                     THEN locals.unique_count + 1
                                     ELSE locals.unique_count,
                    i |-> locals.i + 1]
  /\ UNCHANGED <<fn, args, pc, ret, ref>>

(* double entropy = 0.0; and the second loop starts *)
CountDone ==
  /\ pc = "count_loop"
  /\ ~(locals.i < args.length)
  /\ pc' = "sum_loop"
  /\ locals' = [counts |-> locals.counts, unique_count |-> locals.unique_count,
                entropy |-> Zero(args.length), i |-> 0, divisors |-> {}]
  /\ UNCHANGED <<fn, args, ret, ref>>

(* The iterations of for (i = 0; i < 256; i++) up to and including the     *)
(* next one with counts[i] > 0; the ones before it change nothing.         *)
(*   double p = (double)counts[i] / length; entropy -= p * log2(p);        *)
SumStep ==
  /\ pc = "sum_loop"
  /\ Present(locals.counts, locals.i) # {}
  /\ LET v == CHOOSE x \in Present(locals.counts, locals.i) :
                \A y \in Present(locals.counts, locals.i) : x <= y
         p == Quotient(locals.counts[v], args.length)
     IN  locals' = [locals EXCEPT !.entropy = SubPLog2P(@, p),
                                  !.i = v + 1,
                                  !.divisors = @ \cup {args.length}]
  /\ UNCHANGED <<fn, args, pc, ret, ref>>

(* the remaining iterations have counts[i] == 0; return entropy; *)
SumDone ==
  /\ pc = "sum_loop"
  /\ Present(locals.counts, locals.i) = {}
  /\ pc' = "done"
  /\ ret' = locals.entropy
  /\ UNCHANGED <<fn, args, locals, ref>>

(* the call is over; the next one starts from nothing *)
Return ==
  /\ pc = "done"
  /\ fn' = "idle"
  /\ args' = <<>>
  /\ pc' = "idle"
  /\ locals' = <<>>
  /\ ret' = <<>>
  /\ ref' = <<>>

Next ==
  \/ CallCrc32 \/ CrcStep \/ CrcReturn
  \/ CallMemcmp
  \/ CallFindPattern
  \/ CallEntropy \/ CountStep \/ CountDone \/ SumStep \/ SumDone
  \/ Return

Spec == Init /\ [][Next]_vars

(***************************************************************************)
(* What the claims compare the code with.                                  *)
(***************************************************************************)
(* the indices below len at which a and b differ *)
Differences(a, b, len) == {i \in 0..(len - 1) : a[i + 1] # b[i + 1]}

Least(S) == CHOOSE x \in S : \A y \in S : x <= y

(* the scan from index 0: the unsigned comparison at the first difference *)
NaiveScan(a, b, len) ==
  IF Differences(a, b, len) = {} THEN 0
  ELSE LET i == Least(Differences(a, b, len))
       IN  IF a[i + 1] < b[i + 1] THEN -1 ELSE 1

Sign(x) == IF x < 0 THEN -1 ELSE IF x > 0 THEN 1 ELSE 0

(* haystack[i .. i + n) *)
Window(haystack, i, n) == SubSeq(haystack, i + 1, i + n)

(* the offsets at which the needle occurs in the haystack *)
Occurrences(haystack, haystack_len, needle, needle_len) ==
  {i \in 0..(haystack_len - needle_len) : Window(haystack, i, needle_len) = needle}

(* how often the byte value v occurs in data *)
Frequency(data, v) == Cardinality({i \in 1..Len(data) : data[i] = v})

(* the byte values that occur in data *)
Values(data) == {data[i] : i \in 1..Len(data)}

(* x <= y * 2^k, for naturals *)
RECURSIVE LeqShifted(_, _, _)
LeqShifted(x, y, k) ==
  IF x <= y THEN TRUE
  ELSE IF k = 0 THEN FALSE
  ELSE LeqShifted((x + 1) \div 2, y, k - 1)

(* x * 2^k <= y, for naturals *)
RECURSIVE ShiftedLeq(_, _, _)
ShiftedLeq(x, y, k) ==
  IF k = 0 THEN x <= y
  ELSE IF x > y THEN FALSE
  ELSE ShiftedLeq(x, y \div 2, k - 1)

(* 2^d * x <= y, for any integer d *)
ScaledLeq(d, x, y) == IF d >= 0 THEN ShiftedLeq(x, y, d) ELSE LeqShifted(x, y, -d)

(* the real e stands for is k, is at most k, is at least k *)
EntropyIs(e, k) == e.exp2 = k * e.scale /\ e.num = e.den
EntropyAtMost(e, k) == ScaledLeq(e.exp2 - k * e.scale, e.num, e.den)
EntropyAtLeast(e, k) == ScaledLeq(k * e.scale - e.exp2, e.den, e.num)

Returned(f) == pc = "done" /\ fn = f

(***************************************************************************)
(* C1: on a little-endian target fast_memcmp(a, b, len) has the sign of    *)
(* the naive scan from index 0: the unsigned comparison of a[i] and b[i]   *)
(* at the first index where they differ, zero if there is none.            *)
(***************************************************************************)
C1_MemcmpIsNaiveScan ==
  Returned("fast_memcmp") /\ args.endian = "little"
    => Sign(ret) = NaiveScan(args.a, args.b, args.len)

(***************************************************************************)
(* C2: the table-driven fast_crc32 is the standard reflected CRC-32        *)
(* (polynomial 0xEDB88320, initial register 0xFFFFFFFF, final complement)  *)
(* computed bit by bit; every entry of crc_table is the one generated from *)
(* the polynomial; fast_crc32("123456789") is 0xCBF43926.                  *)
(***************************************************************************)
C2_TableCrcIsStandard ==
  Returned("fast_crc32")
    => /\ ret.table = Xor32(ref, Bits32(\hFFFF, \hFFFF))
       /\ args.data = CheckString => ret.table = Bits32(\hCBF4, \h3926)
       /\ args.length > 0 => \A n \in 0..255 : crc_table[n] = StandardEntry(n)

(***************************************************************************)
(* C3: the hardware build and the table-driven build of fast_crc32, run    *)
(* side by side over the same bytes, always hold equal registers and       *)
(* return equal results.                                                   *)
(***************************************************************************)
C3_CrcBuildsAgree ==
  fn = "fast_crc32"
    => /\ locals.crc.sse42 = locals.crc.table
       /\ pc = "done" => ret.sse42 = ret.table

(***************************************************************************)
(* C4: for 1 <= needle_len <= haystack_len, on both paths, find_pattern    *)
(* returns the smallest offset at which the needle occurs, the sentinel    *)
(* exactly when it occurs nowhere, and a returned offset i has             *)
(* i + needle_len <= haystack_len.                                         *)
(***************************************************************************)
C4_FindPatternLeftmost ==
  Returned("find_pattern") /\ 1 <= args.needle_len /\ args.needle_len <= args.haystack_len
    => LET found == Occurrences(args.haystack, args.haystack_len,
                                args.needle, args.needle_len)
       IN  /\ ret.path = IF args.needle_len <= 8 THEN "packed" ELSE "memcmp"
           /\ (ret.result = NotFound) <=> (found = {})
           /\ found # {} => ret.result = Least(found)
           /\ ret.result # NotFound => /\ ret.result >= 0
                                       /\ ret.result + args.needle_len <= args.haystack_len

C4_Witness ==
  /\ Returned("find_pattern")
  /\ ret.path = "packed"
  /\ ret.result > 0
  /\ Cardinality(Occurrences(args.haystack, args.haystack_len,
                             args.needle, args.needle_len)) >= 2

(***************************************************************************)
(* C5: find_pattern returns the sentinel by its first test when            *)
(* needle_len == 0 or needle_len > haystack_len, so that no search loop    *)
(* runs and haystack_len - needle_len is never evaluated where it wraps.   *)
(***************************************************************************)
C5_FindPatternEarlyReturn ==
  Returned("find_pattern")
    => /\ (args.needle_len = 0 \/ args.needle_len > args.haystack_len)
            => ret.result = NotFound /\ ret.path = "early"
       /\ ret.path \in {"packed", "memcmp"} => args.needle_len <= args.haystack_len
       /\ ret.path # "wrapped"

C5_Witness ==
  /\ Returned("find_pattern")
  /\ args.needle_len > args.haystack_len
  /\ args.haystack_len > 0
  /\ ret.result = NotFound
  /\ ret.path = "early"

(***************************************************************************)
(* C6: fast_memcmp(a, a, len) is 0, and fast_memcmp(a, b, len) and         *)
(* fast_memcmp(b, a, len) mirror each other: -1 against 1, 0 against 0.    *)
(***************************************************************************)
C6_MemcmpReflexiveAntisymmetric ==
  Returned("fast_memcmp")
    => LET back == fast_memcmp(args.b, args.a, args.len, args.endian)
       IN  /\ fast_memcmp(args.a, args.a, args.len, args.endian) = 0
           /\ fast_memcmp(args.b, args.b, args.len, args.endian) = 0
           /\ ret \in {-1, 0, 1}
           /\ (ret = -1) <=> (back = 1)
           /\ (ret = 1) <=> (back = -1)
           /\ (ret = 0) <=> (back = 0)

C6_Witness ==
  /\ Returned("fast_memcmp")
  /\ args.len >= 8
  /\ LoadU64(args.a, 0, args.endian) # LoadU64(args.b, 0, args.endian)
  /\ ret = -1
  /\ fast_memcmp(args.b, args.a, args.len, args.endian) = 1

(***************************************************************************)
(* C7: fast_crc32 with length == 0 returns 0x00000000 in both builds: no   *)
(* byte is processed and the result is the complement of 0xFFFFFFFF.       *)
(***************************************************************************)
C7_CrcOfEmptyIsZero ==
  Returned("fast_crc32") /\ args.length = 0
    => /\ locals.i = 0
       /\ ret.sse42 = Bits32(0, 0)
       /\ ret.table = Bits32(0, 0)

C7_Witness ==
  /\ Returned("fast_crc32")
  /\ args.length = 0
  /\ ret = [sse42 |-> Bits32(0, 0), table |-> Bits32(0, 0)]

(***************************************************************************)
(* C8: calculate_entropy with length == 0 returns exactly 0.0 at once,     *)
(* before the histogram is built and before any division; for length > 0   *)
(* every division count / length has a divisor that is not zero.           *)
(***************************************************************************)
C8_EntropyEmptyReturnsEarly ==
  fn = "calculate_entropy"
    => /\ args.length = 0
            => pc = "done" /\ DOMAIN locals = {} /\ ret = Zero(1)
       /\ pc \in {"count_loop", "sum_loop"} => args.length > 0
       /\ pc = "sum_loop" => 0 \notin locals.divisors

C8_Witness ==
  /\ Returned("calculate_entropy")
  /\ args.length = 0
  /\ DOMAIN locals = {}
  /\ EntropyIs(ret, 0)

C10_MemcmpZeroIffEqual ==
  /\ Returned("fast_memcmp")
       => ((ret = 0) <=> (Differences(args.a, args.b, args.len) = {}))
  /\ Returned("find_pattern") /\ ret.path = "memcmp"
       => /\ \A i \in 0..(args.haystack_len - args.needle_len) :
               (fast_memcmp(PtrAdd(args.haystack, i), args.needle,
                            args.needle_len, args.endian) = 0)
                 <=> (Window(args.haystack, i, args.needle_len) = args.needle)
          /\ ret.result # NotFound
               => Window(args.haystack, ret.result, args.needle_len) = args.needle

C10_Witness ==
  /\ Returned("find_pattern")
  /\ ret.path = "memcmp"
  /\ args.endian = "little"
  /\ ret.result > 0
  /\ Differences(args.haystack, args.needle, args.needle_len) = {args.needle_len - 1}

====
